---------------------------- MODULE Spec2Model ----------------------------
(***************************************************************************)
(* A model of logo-soup: the pixel metrics extractor (analyze), the batch  *)
(* driver (analyzeDirectory) and the size normalizer (normalize).          *)
(*                                                                         *)
(* Numbers.  JavaScript numbers are modelled by exact rationals <<n, d>>   *)
(* in lowest terms with d > 0.  In normalize, powers with a fractional     *)
(* exponent are taken only of inputs whose root is rational, so its values *)
(* are the exact real values of the source expressions.  The one           *)
(* irrational of analyze, the colour-mode centroid weight, is kept in      *)
(* fixed point (see PixelWeight).                                          *)
(***************************************************************************)
EXTENDS Integers, Sequences, FiniteSets, TLC

VARIABLES
    \* analyze (src/src/analyze.ts:7-53)
    file,               \* the file at filePath: Unreadable, or its decoded raster
    contrastThreshold,  \* options.contrastThreshold
    pc,                 \* position inside analyze
    extracted,          \* the value extractPixels returned
    contentBox,         \* the value detectContentBoundingBox returned
    result,             \* what analyze settled with
    \* analyzeDirectory (src/src/analyze.ts:55-87)
    dirPath,            \* the directory: its path, whether readdir succeeds, its entries
    extensions,         \* options.extensions
    files,              \* the entries that passed the extension filter
    idx,                \* the position of the for-of loop in files (from 1)
    results,            \* the Map under construction: key -> Metrics
    calls,              \* history: the calls of analyze the loop has made
    dpc,                \* position inside analyzeDirectory
    \* normalize (src/unnamed/part_004:4-37)
    metrics,            \* the Metrics argument
    options,            \* the options, defaults filled in
    npc,                \* position inside normalize
    dims,               \* the locals width and height
    unscaled,           \* history: width and height before the density compensation
    out                 \* the NormalizedDimensions returned

analyzeVars == <<file, contrastThreshold, pc, extracted, contentBox, result>>
dirVars == <<dirPath, extensions, files, idx, results, calls, dpc>>
normVars == <<metrics, options, npc, dims, unscaled, out>>
vars == <<analyzeVars, dirVars, normVars>>

----------------------------------------------------------------------------
(* Bounds of the model *)

\* A decoded raster has at most MaxPixels pixels (width * height).
MaxPixels == 5

----------------------------------------------------------------------------
(* Program constants *)

CONTRAST_THRESHOLD == 10

----------------------------------------------------------------------------
(* Exact rational arithmetic *)

Abs(n) == IF n < 0 THEN -n ELSE n

RECURSIVE GCD(_, _)
GCD(a, b) == IF b = 0 THEN a ELSE GCD(b, a % b)

\* n/d in lowest terms with a positive denominator (d # 0)
R(n, d) ==
    LET g == GCD(Abs(n), Abs(d))
        s == IF d < 0 THEN -1 ELSE 1
    IN  <<(s * n) \div g, (s * d) \div g>>

RInt(n) == <<n, 1>>
RAdd(p, q) == R(p[1] * q[2] + q[1] * p[2], p[2] * q[2])
RSub(p, q) == R(p[1] * q[2] - q[1] * p[2], p[2] * q[2])
RMul(p, q) == R(p[1] * q[1], p[2] * q[2])
RDiv(p, q) == R(p[1] * q[2], p[2] * q[1])
RNeg(p) == <<-p[1], p[2]>>
RLt(p, q) == p[1] * q[2] < q[1] * p[2]
RLe(p, q) == p[1] * q[2] <= q[1] * p[2]
RIsInteger(p) == p[2] = 1

\* Math.round: the nearest integer, a tie going towards +Infinity
MathRound(p) == RInt((2 * p[1] + p[2]) \div (2 * p[2]))

\* Math.sqrt on a non-negative integer, kept to the integer below
RECURSIVE SqrtSearch(_, _, _)
SqrtSearch(n, lo, hi) ==
    IF lo = hi THEN lo
    ELSE LET mid == (lo + hi + 1) \div 2
         IN  IF mid * mid <= n THEN SqrtSearch(n, mid, hi)
             ELSE SqrtSearch(n, lo, mid - 1)

ISqrt(n) == SqrtSearch(n, 0, 46340)

----------------------------------------------------------------------------
(* Pixel buffers *)

\* The RGBA values a decoded pixel takes in the model: transparent,
\* half-transparent black, opaque black, opaque white.
Palette == { <<0, 0, 0, 0>>, <<0, 0, 0, 128>>, <<0, 0, 0, 255>>,
             <<255, 255, 255, 255>> }

Undefined == -1

Dims == { d \in (1..MaxPixels) \X (1..MaxPixels) : d[1] * d[2] <= MaxPixels }

\* The flat Uint8Array of a raster: 4 bytes per pixel, row-major
Flatten(px, n) == [k \in 0..(4 * n - 1) |-> px[k \div 4][(k % 4) + 1]]

Rasters ==
    UNION { { [readable |-> TRUE, width |-> d[1], height |-> d[2],
               pixels |-> Flatten(px, d[1] * d[2])]
              : px \in [0..(d[1] * d[2] - 1) -> Palette] } : d \in Dims }

Unreadable == [readable |-> FALSE, width |-> 0, height |-> 0, pixels |-> <<>>]

\* pixels[i]: a typed-array read outside the buffer yields undefined
At(pixels, i) == IF i \in DOMAIN pixels THEN pixels[i] ELSE Undefined

RGB(r, g, b) == [r |-> r, g |-> g, b |-> b]
White == RGB(255, 255, 255)


----------------------------------------------------------------------------
(* analyze.ts: the passes over the pixel buffer *)

\* isContentPixel with an inclusive alpha test (>= for >)
isContentPixel_Inclusive(r, g, b, a, threshold, alphaOnly, bg) ==
    IF alphaOnly THEN a >= threshold
    ELSE /\ a >= threshold
         /\ \/ Abs(r - bg.r) > threshold
            \/ Abs(g - bg.g) > threshold
            \/ Abs(b - bg.b) > threshold

isContentPixel(r, g, b, a, threshold, alphaOnly, bg) ==
    IF alphaOnly THEN a > threshold
    ELSE /\ a > threshold
         /\ \/ Abs(r - bg.r) > threshold
            \/ Abs(g - bg.g) > threshold
            \/ Abs(b - bg.b) > threshold

\* extractPixels without the corner estimate: the background stays white
extractPixels_WhiteBackground(f) ==
    LET totalPixels == f.width * f.height
        hasTransparency ==
            \E i \in 0..(totalPixels - 1) : At(f.pixels, i * 4 + 3) < 250
    IN  [pixels |-> f.pixels, width |-> f.width, height |-> f.height,
         alphaOnly |-> hasTransparency, bg |-> White]

\* What extractPixels returns for a file that decodes; a file that does not
\* makes readFile or sharp throw (see Analyze and analyze below).
extractPixels(f) ==
    LET pixels == f.pixels
        width == f.width
        height == f.height
        totalPixels == width * height
        hasTransparency ==
            \E i \in 0..(totalPixels - 1) : At(pixels, i * 4 + 3) < 250
        corners == << 0,
                      (width - 1) * 4,
                      (height - 1) * width * 4,
                      ((height - 1) * width + width - 1) * 4 >>
        sum(c) == At(pixels, corners[1] + c) + At(pixels, corners[2] + c)
                    + At(pixels, corners[3] + c) + At(pixels, corners[4] + c)
        bg == IF hasTransparency THEN White
              ELSE RGB(MathRound(R(sum(0), 4))[1],
                       MathRound(R(sum(1), 4))[1],
                       MathRound(R(sum(2), 4))[1])
    IN  [pixels |-> pixels, width |-> width, height |-> height,
         alphaOnly |-> hasTransparency, bg |-> bg]

Min(S) == CHOOSE m \in S : \A n \in S : m <= n
Max(S) == CHOOSE m \in S : \A n \in S : m >= n

\* The positions the bounding-box scan classifies as content
ContentPositions(pixels, width, height, threshold, alphaOnly, bg) ==
    { p \in (0..(width - 1)) \X (0..(height - 1)) :
        LET i == (p[2] * width + p[1]) * 4
        IN  isContentPixel(At(pixels, i), At(pixels, i + 1), At(pixels, i + 2),
                           At(pixels, i + 3), threshold, alphaOnly, bg) }

\* detectContentBoundingBox answering a scan without content by an empty box
detectContentBoundingBox_EmptyBox(pixels, width, height, threshold, alphaOnly, bg) ==
    LET content == ContentPositions(pixels, width, height, threshold, alphaOnly, bg)
        minX == Min({width} \cup { p[1] : p \in content })
        minY == Min({height} \cup { p[2] : p \in content })
        maxX == Max({0} \cup { p[1] : p \in content })
        maxY == Max({0} \cup { p[2] : p \in content })
    IN  IF minX > maxX \/ minY > maxY
        THEN [x |-> 0, y |-> 0, width |-> 0, height |-> 0]
        ELSE [x |-> minX, y |-> minY,
              width |-> maxX - minX + 1, height |-> maxY - minY + 1]

\* detectContentBoundingBox measuring the box from its first to its last
\* content pixel without counting the last one
detectContentBoundingBox_Exclusive(pixels, width, height, threshold, alphaOnly, bg) ==
    LET content == ContentPositions(pixels, width, height, threshold, alphaOnly, bg)
        minX == Min({width} \cup { p[1] : p \in content })
        minY == Min({height} \cup { p[2] : p \in content })
        maxX == Max({0} \cup { p[1] : p \in content })
        maxY == Max({0} \cup { p[2] : p \in content })
    IN  IF minX > maxX \/ minY > maxY
        THEN [x |-> 0, y |-> 0, width |-> width, height |-> height]
        ELSE [x |-> minX, y |-> minY,
              width |-> maxX - minX, height |-> maxY - minY]

\* detectContentBoundingBox measuring the box from the origin (maxX + 1 for
\* maxX - minX + 1)
detectContentBoundingBox_FromOrigin(pixels, width, height, threshold, alphaOnly, bg) ==
    LET content == ContentPositions(pixels, width, height, threshold, alphaOnly, bg)
        minX == Min({width} \cup { p[1] : p \in content })
        minY == Min({height} \cup { p[2] : p \in content })
        maxX == Max({0} \cup { p[1] : p \in content })
        maxY == Max({0} \cup { p[2] : p \in content })
    IN  IF minX > maxX \/ minY > maxY
        THEN [x |-> 0, y |-> 0, width |-> width, height |-> height]
        ELSE [x |-> minX, y |-> minY,
              width |-> maxX + 1, height |-> maxY + 1]

detectContentBoundingBox(pixels, width, height, threshold, alphaOnly, bg) ==
    LET content == ContentPositions(pixels, width, height, threshold, alphaOnly, bg)
        minX == Min({width} \cup { p[1] : p \in content })
        minY == Min({height} \cup { p[2] : p \in content })
        maxX == Max({0} \cup { p[1] : p \in content })
        maxY == Max({0} \cup { p[2] : p \in content })
    IN  IF minX > maxX \/ minY > maxY
        THEN [x |-> 0, y |-> 0, width |-> width, height |-> height]
        ELSE [x |-> minX, y |-> minY,
              width |-> maxX - minX + 1, height |-> maxY - minY + 1]

\* The byte offset of the pixel the centroid and density passes read at
\* column x, row y of the content box
BoxIndex(width, box, x, y) == ((box.y + y) * width + (box.x + x)) * 4

\* The centroid weight taken against white instead of the estimated
\* background
PixelWeight_AgainstWhite(r, g, b, a, alphaOnly, bg) ==
    IF alphaOnly THEN R(a, 255)
    ELSE LET dr == r - 255
             dg == g - 255
             db == b - 255
             colorDistance16 == ISqrt((dr * dr + dg * dg + db * db) * 256)
             root64 == ISqrt(colorDistance16 * 256)
         IN  RMul(R(root64, 64), R(a, 255))

\* The centroid weight of one content pixel.  In colour mode the source takes
\* sqrt(sqrt(dr^2 + dg^2 + db^2)); the model keeps each square root to 4
\* fractional bits, so the weight is positive exactly when the source's is.
PixelWeight(r, g, b, a, alphaOnly, bg) ==
    IF alphaOnly THEN R(a, 255)
    ELSE LET dr == r - bg.r
             dg == g - bg.g
             db == b - bg.b
             colorDistance16 == ISqrt((dr * dr + dg * dg + db * db) * 256)
             root64 == ISqrt(colorDistance16 * 256)
         IN  RMul(R(root64, 64), R(a, 255))

calculateVisualCenter(pixels, width, box, threshold, alphaOnly, bg) ==
    LET bw == box.width
        bh == box.height
        \* the weight the pixel at column x, row y adds: none when the
        \* pixel is not content (the loop's continue)
        weightAt(x, y) ==
            LET i == BoxIndex(width, box, x, y)
                r == At(pixels, i)
                g == At(pixels, i + 1)
                b == At(pixels, i + 2)
                a == At(pixels, i + 3)
            IN  IF ~isContentPixel(r, g, b, a, threshold, alphaOnly, bg)
                THEN RInt(0)
                ELSE PixelWeight(r, g, b, a, alphaOnly, bg)
        totalWeightTo[k \in 0..(bw * bh)] ==
            IF k = 0 THEN RInt(0)
            ELSE RAdd(totalWeightTo[k - 1],
                      weightAt((k - 1) % bw, (k - 1) \div bw))
        weightedXTo[k \in 0..(bw * bh)] ==
            IF k = 0 THEN RInt(0)
            ELSE RAdd(weightedXTo[k - 1],
                      RMul(R(2 * ((k - 1) % bw) + 1, 2),
                           weightAt((k - 1) % bw, (k - 1) \div bw)))
        weightedYTo[k \in 0..(bw * bh)] ==
            IF k = 0 THEN RInt(0)
            ELSE RAdd(weightedYTo[k - 1],
                      RMul(R(2 * ((k - 1) \div bw) + 1, 2),
                           weightAt((k - 1) % bw, (k - 1) \div bw)))
        totalWeight == totalWeightTo[bw * bh]
        weightedX == weightedXTo[bw * bh]
        weightedY == weightedYTo[bw * bh]
    IN  IF totalWeight = RInt(0)
        THEN [offsetX |-> RInt(0), offsetY |-> RInt(0)]
        ELSE [offsetX |-> RSub(RDiv(weightedX, totalWeight), R(bw, 2)),
              offsetY |-> RSub(RDiv(weightedY, totalWeight), R(bh, 2))]

\* A density pass that averages the opacity over every pixel of the box
\* instead of over the filled ones
measurePixelDensity_MeanOverBox(pixels, width, box, threshold, alphaOnly) ==
    LET bw == box.width
        bh == box.height
        totalPixels == bw * bh
        filledAt(x, y) ==
            LET i == BoxIndex(width, box, x, y)
            IN  isContentPixel(At(pixels, i), At(pixels, i + 1),
                               At(pixels, i + 2), At(pixels, i + 3),
                               threshold, alphaOnly, White)
        alphaAt(x, y) == At(pixels, BoxIndex(width, box, x, y) + 3)
        filledPixelsTo[k \in 0..totalPixels] ==
            IF k = 0 THEN 0
            ELSE filledPixelsTo[k - 1]
                   + (IF filledAt((k - 1) % bw, (k - 1) \div bw) THEN 1 ELSE 0)
        totalOpacityTo[k \in 0..totalPixels] ==
            IF k = 0 THEN RInt(0)
            ELSE RAdd(totalOpacityTo[k - 1],
                      IF filledAt((k - 1) % bw, (k - 1) \div bw)
                      THEN R(alphaAt((k - 1) % bw, (k - 1) \div bw), 255)
                      ELSE RInt(0))
        filledPixels == filledPixelsTo[totalPixels]
        totalOpacity == totalOpacityTo[totalPixels]
    IN  IF totalPixels = 0 THEN R(1, 2)
        ELSE IF filledPixels = 0 THEN RInt(0)
        ELSE RMul(R(filledPixels, totalPixels),
                  RDiv(totalOpacity, RInt(totalPixels)))

measurePixelDensity(pixels, width, box, threshold, alphaOnly) ==
    LET bw == box.width
        bh == box.height
        totalPixels == bw * bh
        filledAt(x, y) ==
            LET i == BoxIndex(width, box, x, y)
            IN  isContentPixel(At(pixels, i), At(pixels, i + 1),
                               At(pixels, i + 2), At(pixels, i + 3),
                               threshold, alphaOnly, White)
        alphaAt(x, y) == At(pixels, BoxIndex(width, box, x, y) + 3)
        filledPixelsTo[k \in 0..totalPixels] ==
            IF k = 0 THEN 0
            ELSE filledPixelsTo[k - 1]
                   + (IF filledAt((k - 1) % bw, (k - 1) \div bw) THEN 1 ELSE 0)
        totalOpacityTo[k \in 0..totalPixels] ==
            IF k = 0 THEN RInt(0)
            ELSE RAdd(totalOpacityTo[k - 1],
                      IF filledAt((k - 1) % bw, (k - 1) \div bw)
                      THEN R(alphaAt((k - 1) % bw, (k - 1) \div bw), 255)
                      ELSE RInt(0))
        filledPixels == filledPixelsTo[totalPixels]
        totalOpacity == totalOpacityTo[totalPixels]
    IN  IF totalPixels = 0 THEN R(1, 2)
        ELSE IF filledPixels = 0 THEN RInt(0)
        ELSE RMul(R(filledPixels, totalPixels),
                  RDiv(totalOpacity, RInt(filledPixels)))

\* The outcomes of a call of analyze
Thrown == [kind |-> "throw"]
NoContent == [kind |-> "undefined"]
Pending == [kind |-> "pending"]

\* The Metrics analyze returns once the content box has an area
MetricsOf(e, box, threshold) ==
    LET visualCenter == calculateVisualCenter(e.pixels, e.width, box, threshold,
                                              e.alphaOnly, e.bg)
        density == measurePixelDensity(e.pixels, e.width, box, threshold,
                                       e.alphaOnly)
    IN  [kind |-> "metrics",
         contentRatio |-> R(box.width, box.height),
         pixelDensity |-> density,
         visualCenterX |-> RDiv(visualCenter.offsetX, RInt(box.width)),
         visualCenterY |-> RDiv(visualCenter.offsetY, RInt(box.height))]

\* analyze as one call: its outcome for the file at filePath
analyze(f, threshold) ==
    IF ~f.readable THEN Thrown
    ELSE LET e == extractPixels(f)
             box == detectContentBoundingBox(e.pixels, e.width, e.height,
                                             threshold, e.alphaOnly, e.bg)
         IN  IF box.width = 0 \/ box.height = 0 THEN NoContent
             ELSE MetricsOf(e, box, threshold)

----------------------------------------------------------------------------
(* analyze, step by step *)

Thresholds == {0, CONTRAST_THRESHOLD, 128}

NoBox == [x |-> 0, y |-> 0, width |-> 0, height |-> 0]
NotExtracted == [pixels |-> <<>>, width |-> 0, height |-> 0,
                 alphaOnly |-> FALSE, bg |-> White]

\* analyzeDirectory is not running
NoDir == [path |-> <<>>, readable |-> FALSE, entries |-> <<>>]
DirIdle ==
    /\ dirPath = NoDir
    /\ extensions = {}
    /\ files = <<>>
    /\ idx = 0
    /\ results = <<>>
    /\ calls = <<>>
    /\ dpc = "idle"

\* normalize is not running
NoDims == [width |-> RInt(0), height |-> RInt(0)]
NoOut == [width |-> RInt(0), height |-> RInt(0),
          offsetX |-> RInt(0), offsetY |-> RInt(0)]
NormIdle ==
    /\ metrics = Pending
    /\ options = <<>>
    /\ npc = "idle"
    /\ dims = NoDims
    /\ unscaled = NoDims
    /\ out = NoOut

Init ==
    /\ file \in Rasters \cup {Unreadable}
    /\ contrastThreshold \in Thresholds
    /\ pc = "start"
    /\ extracted = NotExtracted
    /\ contentBox = NoBox
    /\ result = Pending
    /\ DirIdle
    /\ NormIdle

\* line 16: await extractPixels(filePath, sampleMaxSize); a rejection of
\* readFile or of sharp's toBuffer is not caught and rejects analyze
ExtractPixels ==
    /\ pc = "start"
    /\ IF file.readable
       THEN /\ extracted' = extractPixels(file)
            /\ pc' = "extracted"
            /\ result' = result
       ELSE /\ extracted' = extracted
            /\ pc' = "done"
            /\ result' = Thrown
    /\ UNCHANGED <<file, contrastThreshold, contentBox, dirVars, normVars>>

\* lines 18-28: the bounding box, and the early return on an empty box
DetectBox ==
    /\ pc = "extracted"
    /\ contentBox' = detectContentBoundingBox(extracted.pixels, extracted.width,
                        extracted.height, contrastThreshold,
                        extracted.alphaOnly, extracted.bg)
    /\ IF contentBox'.width = 0 \/ contentBox'.height = 0
       THEN pc' = "done" /\ result' = NoContent
       ELSE pc' = "boxed" /\ result' = result
    /\ UNCHANGED <<file, contrastThreshold, extracted, dirVars, normVars>>

\* lines 30-52: the centroid, the density and the returned Metrics
Measure ==
    /\ pc = "boxed"
    /\ result' = MetricsOf(extracted, contentBox, contrastThreshold)
    /\ pc' = "done"
    /\ UNCHANGED <<file, contrastThreshold, extracted, contentBox, dirVars, normVars>>

Next == ExtractPixels \/ DetectBox \/ Measure

Spec == Init /\ [][Next]_vars

----------------------------------------------------------------------------
(* analyze of a drawn rectangle *)

\* The drawn images are at most MaxSide pixels wide and high.
MaxSide == 4

\* Opaque colours: black, white, an off-white within the default threshold
\* of white, and a red
RectColours == { <<0, 0, 0>>, <<255, 255, 255>>, <<250, 250, 250>>,
                 <<200, 30, 30>> }

\* The rectangle r covers the pixel at column x, row y
Covers(r, x, y) ==
    /\ r.x <= x /\ x < r.x + r.width
    /\ r.y <= y /\ y < r.y + r.height

\* The four pixels extractPixels samples for the background
CornerPixels(w, h) ==
    { <<0, 0>>, <<w - 1, 0>>, <<0, h - 1>>, <<w - 1, h - 1>> }

\* The axis-aligned rectangles inside a w x h image that cover none of its
\* corner pixels
InnerRectangles(w, h) ==
    { r \in [x : 0..(w - 1), y : 0..(h - 1), width : 1..w, height : 1..h] :
        /\ r.x + r.width <= w
        /\ r.y + r.height <= h
        /\ \A c \in CornerPixels(w, h) : ~Covers(r, c[1], c[2]) }

\* The decoded buffer of a w x h image of colour background with the
\* rectangle r filled in colour colour, every pixel opaque
DrawRectangle(w, h, r, background, colour) ==
    [k \in 0..(4 * w * h - 1) |->
        LET x == (k \div 4) % w
            y == (k \div 4) \div w
            c == IF Covers(r, x, y) THEN colour ELSE background
        IN  IF k % 4 = 3 THEN 255 ELSE c[(k % 4) + 1]]

\* The files that hold one solid rectangle on a uniform background; rect,
\* background and colour record what was drawn
RectangleImages ==
    UNION { { [readable |-> TRUE, width |-> d[1], height |-> d[2],
               pixels |-> DrawRectangle(d[1], d[2], r, c[1], c[2]),
               rect |-> r, background |-> c[1], colour |-> c[2]]
              : r \in InnerRectangles(d[1], d[2]),
                c \in RectColours \X RectColours }
            : d \in (1..MaxSide) \X (1..MaxSide) }

InitRect ==
    /\ file \in RectangleImages
    /\ contrastThreshold \in Thresholds
    /\ pc = "start"
    /\ extracted = NotExtracted
    /\ contentBox = NoBox
    /\ result = Pending
    /\ DirIdle
    /\ NormIdle

SpecRect == InitRect /\ [][Next]_vars

----------------------------------------------------------------------------
(* analyzeDirectory *)

\* At most MaxFiles entries in a directory listing
MaxFiles == 3

\* Strings are sequences of characters.
ToLowerChar(c) ==
    CASE c = "S" -> "s"
      [] c = "V" -> "v"
      [] c = "G" -> "g"
      [] OTHER -> c

toLowerCase(str) == [i \in 1..Len(str) |-> ToLowerChar(str[i])]

\* String.prototype.slice(1)
Slice1(str) == IF Len(str) <= 1 THEN <<>> ELSE SubSeq(str, 2, Len(str))

\* node:path extname: from the last "." of the last path component to the
\* end; empty without a ".", when the only "." starts the component, and
\* for the component ".."
extname(p) ==
    LET startPart == 1 + Max({0} \cup { i \in 1..Len(p) : p[i] = "/" })
        dots == { i \in startPart..Len(p) : p[i] = "." }
        startDot == Max(dots)
    IN  IF dots = {} THEN <<>>
        ELSE IF startDot = startPart THEN <<>>
        ELSE IF SubSeq(p, startPart, Len(p)) = <<".", ".">> THEN <<>>
        ELSE SubSeq(p, startDot, Len(p))

\* node:path resolve of a bare entry name against the absolute dirPath
resolve(dir, entry) == dir \o <<"/">> \o entry

\* The filter of lines 65-67 with the extension compared as spelled (no
\* toLowerCase)
Eligible_CaseSensitive(entry, exts) == Slice1(extname(entry)) \in exts

\* The filter of lines 65-67
Eligible(entry, exts) == toLowerCase(Slice1(extname(entry))) \in exts

\* The key results.set stores the metrics under: the absolute path
ResultKey_AbsolutePath(absolutePath, entry) == absolutePath

\* The key results.set stores the metrics under (line 78)
ResultKey(absolutePath, entry) == entry

\* Map.prototype.set
MapSet(m, k, v) == [x \in (DOMAIN m) \cup {k} |-> IF x = k THEN v ELSE m[x]]

DEFAULT_EXTENSIONS == { <<"s", "v", "g">>, <<"p", "n", "g">> }

\* The option values of the model: the default, one extension, an
\* upper-case spelling, the empty extension
ExtensionOptions ==
    { DEFAULT_EXTENSIONS,
      { <<"s", "v", "g">> },
      { <<"p", "n", "g">> },
      { <<"S", "V", "G">> },
      { <<>> } }

\* The entry names of the model: a.svg, b.SVG, c.png, n.txt, .svg, svg
NamePool ==
    { <<"a", ".", "s", "v", "g">>,
      <<"b", ".", "S", "V", "G">>,
      <<"c", ".", "p", "n", "g">>,
      <<"n", ".", "t", "x", "t">>,
      <<".", "s", "v", "g">>,
      <<"s", "v", "g">> }

\* readdir returns each entry once, in any order
Listings ==
    UNION { { l \in [1..n -> NamePool] :
                \A i, j \in 1..n : l[i] = l[j] => i = j } : n \in 0..MaxFiles }

LogosDir == <<"/", "l">>

\* What a path holds when analyze reads it: nothing readable, a blank
\* 1x1 canvas, a 2x1 canvas with one opaque pixel
FileContents ==
    { Unreadable,
      [readable |-> TRUE, width |-> 1, height |-> 1,
       pixels |-> Flatten([i \in 0..0 |-> <<0, 0, 0, 0>>], 1)],
      [readable |-> TRUE, width |-> 2, height |-> 1,
       pixels |-> Flatten([i \in 0..1 |->
                     IF i = 0 THEN <<0, 0, 0, 255>> ELSE <<0, 0, 0, 0>>], 2)] }

AnalyzeIdle ==
    /\ file = Unreadable
    /\ contrastThreshold = CONTRAST_THRESHOLD
    /\ pc = "idle"
    /\ extracted = NotExtracted
    /\ contentBox = NoBox
    /\ result = Pending

InitDir ==
    /\ AnalyzeIdle
    /\ NormIdle
    /\ dirPath \in { [path |-> LogosDir, readable |-> TRUE, entries |-> l] :
                       l \in Listings }
                   \cup { [path |-> LogosDir, readable |-> FALSE,
                           entries |-> <<>>] }
    /\ extensions \in ExtensionOptions
    /\ files = <<>>
    /\ idx = 0
    /\ results = <<>>
    /\ calls = <<>>
    /\ dpc = "start"

\* lines 64-69: readdir (its rejection rejects analyzeDirectory), the
\* filter, the empty Map
ReadDir ==
    /\ dpc = "start"
    /\ IF dirPath.readable
       THEN /\ files' = SelectSeq(dirPath.entries,
                                  LAMBDA entry : Eligible(entry, extensions))
            /\ idx' = 1
            /\ dpc' = "loop"
       ELSE /\ files' = files
            /\ idx' = idx
            /\ dpc' = "rejected"
    /\ results' = <<>>
    /\ UNCHANGED <<dirPath, extensions, calls, analyzeVars, normVars>>

\* The loop body without its try/catch: analyze's rejection rejects
\* analyzeDirectory
IterateFile_NoCatch ==
    /\ dpc = "loop"
    /\ idx <= Len(files)
    /\ \E content \in FileContents :
         LET entry == files[idx]
             absolutePath == resolve(dirPath.path, entry)
             fileMetrics == analyze(content, contrastThreshold)
         IN  /\ calls' = Append(calls, [path |-> absolutePath, entry |-> entry,
                                        content |-> content, outcome |-> fileMetrics])
             /\ IF fileMetrics.kind = "throw"
                THEN results' = results /\ dpc' = "rejected"
                ELSE /\ dpc' = dpc
                     /\ IF fileMetrics.kind = "metrics"
                        THEN results' = MapSet(results,
                                          ResultKey(absolutePath, entry), fileMetrics)
                        ELSE results' = results
    /\ idx' = idx + 1
    /\ UNCHANGED <<dirPath, extensions, files, analyzeVars, normVars>>

\* lines 71-84: one iteration of the for-of loop; what the path holds is
\* read when analyze is called
IterateFile ==
    /\ dpc = "loop"
    /\ idx <= Len(files)
    /\ \E content \in FileContents :
         LET entry == files[idx]
             absolutePath == resolve(dirPath.path, entry)
             fileMetrics == analyze(content, contrastThreshold)
         IN  /\ calls' = Append(calls, [path |-> absolutePath, entry |-> entry,
                                        content |-> content, outcome |-> fileMetrics])
             /\ IF fileMetrics.kind = "throw"
                THEN results' = results         \* catch {}: skip the file
                ELSE IF fileMetrics.kind = "metrics"
                THEN results' = MapSet(results,
                                       ResultKey(absolutePath, entry), fileMetrics)
                ELSE results' = results         \* undefined is falsy
    /\ idx' = idx + 1
    /\ UNCHANGED <<dirPath, extensions, files, dpc, analyzeVars, normVars>>

\* line 86
ReturnResults ==
    /\ dpc = "loop"
    /\ idx > Len(files)
    /\ dpc' = "done"
    /\ UNCHANGED <<dirPath, extensions, files, idx, results, calls, analyzeVars, normVars>>

NextDir == ReadDir \/ IterateFile \/ ReturnResults

SpecDir == InitDir /\ [][NextDir]_vars

----------------------------------------------------------------------------
(* normalize *)

BASE_SIZE == 48
SCALE_FACTOR == R(1, 2)
DENSITY_FACTOR == R(1, 2)
DENSITY_DAMPENING == R(1, 2)
REFERENCE_DENSITY == R(7, 20)

RECURSIVE IntPow(_, _)
IntPow(n, p) == IF p = 0 THEN 1 ELSE n * IntPow(n, p - 1)

\* The exact square root of a non-negative integer, Undefined when irrational
ExactSqrt(n) == LET s == ISqrt(n) IN IF s * s = n THEN s ELSE Undefined

\* The exact k-th root (k = 1, 2, 4), Undefined when irrational
ExactRoot(n, k) ==
    CASE k = 1 -> n
      [] k = 2 -> ExactSqrt(n)
      [] k = 4 -> IF ExactSqrt(n) = Undefined THEN Undefined
                  ELSE ExactSqrt(ExactSqrt(n))
      [] OTHER -> Undefined

\* q ** e is rational: e >= 0 is p/k in lowest terms, q >= 0
HasPow(q, e) ==
    \/ e[1] = 0
    \/ /\ ExactRoot(q[1], e[2]) # Undefined
       /\ ExactRoot(q[2], e[2]) # Undefined

\* q ** e for q >= 0 and e >= 0 with HasPow(q, e); x ** 0 is 1
RPow(q, e) ==
    IF e[1] = 0 THEN RInt(1)
    ELSE R(IntPow(ExactRoot(q[1], e[2]), e[1]),
           IntPow(ExactRoot(q[2], e[2]), e[1]))

\* Math.max and Math.min
MathMax(p, q) == IF RLt(p, q) THEN q ELSE p
MathMin(p, q) == IF RLt(q, p) THEN q ELSE p

\* Lines 16-20 with the two axes exchanged
PowerLawSize_Swapped(m, o) ==
    LET ratio == m.contentRatio
        height == RMul(RPow(ratio, o.scaleFactor), o.baseSize)
    IN  [width |-> RDiv(height, ratio), height |-> height]

\* lines 16-20: Dan Paquette's aspect ratio normalization
PowerLawSize(m, o) ==
    LET ratio == m.contentRatio
        width == RMul(RPow(ratio, o.scaleFactor), o.baseSize)
    IN  [width |-> width, height |-> RDiv(width, ratio)]

\* Line 25 without the reciprocal
densityScale_NoReciprocal(m, o) ==
    LET densityRatio == RDiv(m.pixelDensity, o.referenceDensity)
    IN  RPow(densityRatio, RMul(o.densityFactor, o.densityDampening))

\* lines 24-25
densityScale(m, o) ==
    LET densityRatio == RDiv(m.pixelDensity, o.referenceDensity)
    IN  RPow(RDiv(RInt(1), densityRatio),
             RMul(o.densityFactor, o.densityDampening))

\* Line 26 with the two limits exchanged
clampedScale_SwappedLimits(m, o) ==
    MathMin(R(1, 2), MathMax(RInt(2), densityScale(m, o)))

\* Line 26 with the upper limit only
clampedScale_NoLowerLimit(m, o) == MathMin(RInt(2), densityScale(m, o))

\* line 26
clampedScale(m, o) == MathMax(R(1, 2), MathMin(RInt(2), densityScale(m, o)))

\* lines 22-29: density compensation of the locals width and height
DensityCompensation(d, m, o) ==
    IF RLt(RInt(0), o.densityFactor) /\ RLt(RInt(0), m.pixelDensity)
    THEN [width |-> RMul(d.width, clampedScale(m, o)),
          height |-> RMul(d.height, clampedScale(m, o))]
    ELSE d

\* Lines 31-36 truncating where the source rounds
Rounded_Truncating(d, m) ==
    LET Trunc(p) == RInt(p[1] \div p[2])
    IN  [width |-> Trunc(d.width),
         height |-> Trunc(d.height),
         offsetX |-> RDiv(MathRound(RMul(RMul(RNeg(m.visualCenterX), d.width),
                                         RInt(10))), RInt(10)),
         offsetY |-> RDiv(MathRound(RMul(RMul(RNeg(m.visualCenterY), d.height),
                                         RInt(10))), RInt(10))]

\* Lines 31-36 without the sign inversion of the offsets
Rounded_SameSign(d, m) ==
    [width |-> MathRound(d.width),
     height |-> MathRound(d.height),
     offsetX |-> RDiv(MathRound(RMul(RMul(m.visualCenterX, d.width),
                                     RInt(10))), RInt(10)),
     offsetY |-> RDiv(MathRound(RMul(RMul(m.visualCenterY, d.height),
                                     RInt(10))), RInt(10))]

\* lines 31-36: the returned object
Rounded(d, m) ==
    [width |-> MathRound(d.width),
     height |-> MathRound(d.height),
     offsetX |-> RDiv(MathRound(RMul(RMul(RNeg(m.visualCenterX), d.width),
                                     RInt(10))), RInt(10)),
     offsetY |-> RDiv(MathRound(RMul(RMul(RNeg(m.visualCenterY), d.height),
                                     RInt(10))), RInt(10))]

\* normalize as one call
normalize(m, o) == Rounded(DensityCompensation(PowerLawSize(m, o), m, o), m)

\* The inputs of the model.  Content ratios: squares of rationals, and
\* 193/192 and 200 (a 200x1 box) for the integer exponents.
Ratios == { R(1, 16), R(1, 4), RInt(1), R(193, 192), R(25, 16), R(9, 4),
            RInt(4), RInt(200) }

\* Pixel densities: 0, the reference 0.35 times (2/3)^4, (3/2)^4 and 2^4,
\* the reference times 96/95, and 0.1, 0.5, 100
Densities == { RInt(0), R(28, 405), R(1, 10), REFERENCE_DENSITY, R(168, 475),
               R(1, 2), R(567, 320), R(28, 5), RInt(100) }

CentersX == { R(-1, 2), R(-1, 20), R(-1, 1000), RInt(0), R(1, 1000), R(1, 20),
              R(1, 10) }
CentersY == { R(-1, 20), RInt(0), R(1, 10) }

MetricsInputs ==
    [kind : {"metrics"}, contentRatio : Ratios, pixelDensity : Densities,
     visualCenterX : CentersX, visualCenterY : CentersY]

OptionsInputs ==
    [baseSize : { RInt(1), RInt(BASE_SIZE) },
     scaleFactor : { RInt(0), SCALE_FACTOR, RInt(1) },
     densityFactor : { RInt(0), DENSITY_FACTOR, RInt(1) },
     densityDampening : { RInt(0), DENSITY_DAMPENING, RInt(1) },
     referenceDensity : { REFERENCE_DENSITY }]

\* Every power normalize takes of these inputs is rational
Representable(m, o) ==
    /\ HasPow(m.contentRatio, o.scaleFactor)
    /\ (RLt(RInt(0), o.densityFactor) /\ RLt(RInt(0), m.pixelDensity)) =>
          HasPow(RDiv(m.pixelDensity, o.referenceDensity),
                 RMul(o.densityFactor, o.densityDampening))

InitNorm ==
    /\ AnalyzeIdle
    /\ DirIdle
    /\ metrics \in MetricsInputs
    /\ options \in OptionsInputs
    /\ Representable(metrics, options)
    /\ npc = "start"
    /\ dims = NoDims
    /\ unscaled = NoDims
    /\ out = NoOut

\* lines 16-20
PowerLaw ==
    /\ npc = "start"
    /\ dims' = PowerLawSize(metrics, options)
    /\ unscaled' = dims'
    /\ npc' = "sized"
    /\ UNCHANGED <<metrics, options, out, analyzeVars, dirVars>>

\* lines 22-29
Compensate ==
    /\ npc = "sized"
    /\ dims' = DensityCompensation(dims, metrics, options)
    /\ npc' = "compensated"
    /\ UNCHANGED <<metrics, options, unscaled, out, analyzeVars, dirVars>>

\* lines 31-36
Return ==
    /\ npc = "compensated"
    /\ out' = Rounded(dims, metrics)
    /\ npc' = "done"
    /\ UNCHANGED <<metrics, options, dims, unscaled, analyzeVars, dirVars>>

NextNorm == PowerLaw \/ Compensate \/ Return

SpecNorm == InitNorm /\ [][NextNorm]_vars

----------------------------------------------------------------------------
(* Properties of analyze *)

\* analyze has returned or thrown for a file that decoded
Analyzed == pc = "done" /\ file.readable

\* No pixel of the extracted buffer is classified as content
NoContentPixel ==
    ContentPositions(extracted.pixels, extracted.width, extracted.height,
                     contrastThreshold, extracted.alphaOnly, extracted.bg) = {}

FullCanvas ==
    [x |-> 0, y |-> 0, width |-> extracted.width, height |-> extracted.height]

AllAlphaAtMostThreshold ==
    \A i \in 0..(file.width * file.height - 1) :
        At(file.pixels, i * 4 + 3) <= contrastThreshold

BoxReads ==
    { BoxIndex(extracted.width, contentBox, x, y) + c :
        x \in 0..(contentBox.width - 1), y \in 0..(contentBox.height - 1),
        c \in 0..3 }

\* C10: the content box lies inside the buffer (0 <= x, 0 <= y,
\* x + width <= bufferWidth, y + height <= bufferHeight), so the centroid and
\* density passes read no pixel index outside the buffer.
C10_BoxInsideBuffer ==
    (pc \in {"boxed", "done"} /\ file.readable) =>
        /\ 0 <= contentBox.x
        /\ 0 <= contentBox.y
        /\ contentBox.x + contentBox.width <= extracted.width
        /\ contentBox.y + contentBox.height <= extracted.height
        /\ BoxReads \subseteq DOMAIN extracted.pixels

\* C10's case: a box that starts off the origin and ends at the buffer's
\* edge, measured by both passes
C10_Witness ==
    /\ Analyzed
    /\ result.kind = "metrics"
    /\ contentBox.x > 0
    /\ contentBox.y > 0
    /\ contentBox.x + contentBox.width = extracted.width
    /\ contentBox.y + contentBox.height = extracted.height
    /\ ~extracted.alphaOnly

\* The pixels of the content box, as <<column, row>> of the buffer
BoxPositions ==
    { <<x, y>> : x \in contentBox.x..(contentBox.x + contentBox.width - 1),
                 y \in contentBox.y..(contentBox.y + contentBox.height - 1) }

PixelAt(p) ==
    LET i == (p[2] * extracted.width + p[1]) * 4
    IN  [r |-> At(extracted.pixels, i), g |-> At(extracted.pixels, i + 1),
         b |-> At(extracted.pixels, i + 2), a |-> At(extracted.pixels, i + 3)]

\* The pixels of the content box the density pass classifies as filled: by
\* alpha in alpha mode, by alpha and contrast against white in colour mode
FilledPositions ==
    { p \in BoxPositions :
        LET px == PixelAt(p)
        IN  isContentPixel(px.r, px.g, px.b, px.a, contrastThreshold,
                           extracted.alphaOnly, White) }

RECURSIVE SumAlpha(_)
SumAlpha(S) ==
    IF S = {} THEN 0
    ELSE LET p == CHOOSE q \in S : TRUE
         IN  PixelAt(p).a + SumAlpha(S \ {p})

Returned == Analyzed /\ result.kind = "metrics"

\* C11: pixelDensity lies in [0, 1]; it is (filled pixels / pixels of the
\* content box) * (mean alpha / 255 over the filled pixels), and 0 when no
\* pixel is filled.
C11_DensityIsCoverageTimesOpacity ==
    Returned =>
        /\ RLe(RInt(0), result.pixelDensity)
        /\ RLe(result.pixelDensity, RInt(1))
        /\ FilledPositions = {} => result.pixelDensity = RInt(0)
        /\ FilledPositions # {} =>
              result.pixelDensity =
                  RMul(R(Cardinality(FilledPositions), Cardinality(BoxPositions)),
                       RDiv(R(SumAlpha(FilledPositions), 255),
                            RInt(Cardinality(FilledPositions))))

\* C11's case: a box that is partly filled, by pixels of different alpha
C11_Witness ==
    /\ Returned
    /\ FilledPositions # {}
    /\ FilledPositions # BoxPositions
    /\ \E p, q \in FilledPositions : PixelAt(p).a # PixelAt(q).a
    /\ RLt(RInt(0), result.pixelDensity)
    /\ RLt(result.pixelDensity, RInt(1))

\* The bounding-box pass has classified at least one pixel as content
HasContentPixel == ~NoContentPixel

\* C14: whenever the bounding-box pass detects a content pixel, in alpha or
\* in colour mode and with any estimated background, the pixelDensity that
\* analyze returns is strictly greater than 0.
C14_ContentHasPositiveDensity ==
    (Returned /\ HasContentPixel) => RLt(RInt(0), result.pixelDensity)

\* The part of C14 the density pass does guarantee: in alpha mode, where the
\* background plays no part, content always has a positive density
C14_AlphaContentHasPositiveDensity ==
    (Returned /\ HasContentPixel /\ extracted.alphaOnly) =>
        RLt(RInt(0), result.pixelDensity)

\* The pixels the bounding-box pass classifies as content
Content ==
    ContentPositions(extracted.pixels, extracted.width, extracted.height,
                     contrastThreshold, extracted.alphaOnly, extracted.bg)

Boxed == pc \in {"boxed", "done"} /\ file.readable

\* C15: with at least one content pixel the content box is the smallest
\* axis-aligned rectangle containing every content pixel: all of them lie
\* inside it and its first and last column and row each hold one; so its
\* width and height are at least 1 and contentRatio = width / height > 0.
C15_BoxIsTightAroundContent ==
    (Boxed /\ HasContentPixel) =>
        /\ \A p \in Content : p \in BoxPositions
        /\ \E p \in Content : p[1] = contentBox.x
        /\ \E p \in Content : p[1] = contentBox.x + contentBox.width - 1
        /\ \E p \in Content : p[2] = contentBox.y
        /\ \E p \in Content : p[2] = contentBox.y + contentBox.height - 1
        /\ contentBox.width >= 1
        /\ contentBox.height >= 1
        /\ pc = "done" =>
              /\ result.kind = "metrics"
              /\ result.contentRatio = R(contentBox.width, contentBox.height)
              /\ RLt(RInt(0), result.contentRatio)

\* C15's case: content on two rows with a row without content between them,
\* in a box smaller than the canvas
C15_Witness ==
    /\ Returned
    /\ HasContentPixel
    /\ contentBox # FullCanvas
    /\ contentBox.height >= 3
    /\ BoxPositions \ Content # {}
    /\ result.contentRatio = R(contentBox.width, contentBox.height)

\* The weight the centroid pass gives the content pixel at p
WeightOf(p) ==
    LET px == PixelAt(p)
    IN  PixelWeight(px.r, px.g, px.b, px.a, extracted.alphaOnly, extracted.bg)

RECURSIVE SumWeight(_)
SumWeight(S) ==
    IF S = {} THEN RInt(0)
    ELSE LET p == CHOOSE q \in S : TRUE
         IN  RAdd(WeightOf(p), SumWeight(S \ {p}))

\* The centroid pass finds a total weight of zero and answers by the centre
\* of the box
ZeroWeightFallback == SumWeight(Content \cap BoxPositions) = RInt(0)

\* C16: visualCenterX and visualCenterY lie in [-0.5, 0.5] whenever Metrics
\* are returned; every content pixel has a strictly positive centroid
\* weight, for any contrastThreshold >= 0, so the zero-total-weight fallback
\* is taken only when the content box holds no content pixel.
C16_VisualCenterWithinHalf ==
    Returned =>
        /\ RLe(R(-1, 2), result.visualCenterX)
        /\ RLe(result.visualCenterX, R(1, 2))
        /\ RLe(R(-1, 2), result.visualCenterY)
        /\ RLe(result.visualCenterY, R(1, 2))
        /\ \A p \in Content : RLt(RInt(0), WeightOf(p))
        /\ ZeroWeightFallback => Content \cap BoxPositions = {}
        /\ ZeroWeightFallback =>
              /\ result.visualCenterX = RInt(0)
              /\ result.visualCenterY = RInt(0)

\* C16's case: a colour-mode image at threshold 0 whose content pixels weigh
\* differently, so the visual centre is off the centre of the box
C16_Witness ==
    /\ Returned
    /\ ~extracted.alphaOnly
    /\ contrastThreshold = 0
    /\ HasContentPixel
    /\ \E p, q \in Content : WeightOf(p) # WeightOf(q)
    /\ result.visualCenterX # RInt(0)
    /\ RLt(R(-1, 2), result.visualCenterX)
    /\ RLt(result.visualCenterX, R(1, 2))

\* The drawn rectangle differs from the background by more than the
\* threshold in at least one channel
RectangleStandsOut ==
    \E c \in 1..3 :
        Abs(file.colour[c] - file.background[c]) > contrastThreshold

----------------------------------------------------------------------------
(* Properties of analyzeDirectory *)

\* The extension of an entry name as the claims read it: what follows the
\* last "." of the name, lower-cased; empty when the name has no "." after
\* its first character
LowerCasedExtension(name) ==
    LET dots == { i \in 2..Len(name) : name[i] = "." }
    IN  IF dots = {} THEN <<>>
        ELSE LET tail == SubSeq(name, Max(dots) + 1, Len(name))
             IN  [i \in 1..Len(tail) |-> ToLowerChar(tail[i])]

Matching(name) == LowerCasedExtension(name) \in extensions

EntrySet == { dirPath.entries[i] : i \in DOMAIN dirPath.entries }
CallSet == { calls[i] : i \in DOMAIN calls }

\* C3: the returned map's keys are exactly the bare entry names whose
\* lower-cased extension is in extensions and whose analyze call returned
\* metrics, each mapped to those metrics; an entry with another extension is
\* never analyzed and never a key; no key contains a path separator.
C3_KeysAreMatchingAnalyzedEntries ==
    dpc = "done" =>
        /\ DOMAIN results =
             { e \in EntrySet :
                 /\ Matching(e)
                 /\ \E c \in CallSet : c.entry = e /\ c.outcome.kind = "metrics" }
        /\ \A c \in CallSet :
             /\ Matching(c.entry)
             /\ c.entry \in EntrySet
             /\ c.outcome.kind = "metrics" => results[c.entry] = c.outcome
        /\ \A e \in EntrySet : ~Matching(e) =>
             /\ e \notin DOMAIN results
             /\ \A c \in CallSet : c.entry # e
        /\ \A k \in DOMAIN results : \A i \in 1..Len(k) : k[i] # "/"

\* C3's case: a listing with a matching entry that yields metrics, a matching
\* entry spelled in upper case, a matching entry that fails and an entry that
\* does not match
C3_Witness ==
    /\ dpc = "done"
    /\ \E c \in CallSet : c.outcome.kind = "metrics" /\ c.entry \in DOMAIN results
    /\ \E c \in CallSet : c.outcome.kind = "throw"
    /\ \E c \in CallSet : c.entry = <<"b", ".", "S", "V", "G">>
    /\ \E e \in EntrySet : ~Matching(e)

\* C4: a read/decode failure leaves analyze as a thrown error; inside
\* analyzeDirectory it is caught: analyzeDirectory does not reject, the file
\* is omitted, the entries already stored are unchanged and every later
\* matching file is still analyzed.
C4_DecodeFailureIsSkipped ==
    /\ [](\A c \in CallSet : ~c.content.readable => c.outcome = Thrown)
    /\ [](dpc = "rejected" => ~dirPath.readable)
    /\ [](dpc = "done" =>
            /\ Len(calls) = Len(files)
            /\ \A i \in DOMAIN calls : calls[i].entry = files[i]
            /\ \A c \in CallSet :
                 ~c.content.readable => c.entry \notin DOMAIN results)
    /\ [][ (/\ Len(calls') = Len(calls) + 1
            /\ ~calls'[Len(calls')].content.readable)
           => /\ results' = results
              /\ dpc' = "loop"
              /\ idx' = idx + 1 ]_vars

\* C4's case: metrics stored, then a file that fails, then a file that is
\* still analyzed and stored
C4_Witness ==
    /\ dpc = "done"
    /\ \E i, j, k \in DOMAIN calls :
         /\ i < j /\ j < k
         /\ calls[i].outcome.kind = "metrics"
         /\ calls[j].outcome = Thrown
         /\ calls[k].outcome.kind = "metrics"
         /\ calls[i].entry \in DOMAIN results
         /\ calls[j].entry \notin DOMAIN results
         /\ calls[k].entry \in DOMAIN results

----------------------------------------------------------------------------
(* Properties of normalize *)

Normalized == npc = "done"
Positive(p) == RLt(RInt(0), p)

\* C5, as stated: for contentRatio > 0 and baseSize > 0 the returned width
\* and height are integers and strictly positive.
C5_StrictlyPositiveIntegers ==
    (Normalized /\ Positive(metrics.contentRatio) /\ Positive(options.baseSize)) =>
        /\ RIsInteger(out.width) /\ Positive(out.width)
        /\ RIsInteger(out.height) /\ Positive(out.height)

\* C5, amended: the returned width and height are integers and never
\* negative; each is strictly positive exactly when its unrounded value is at
\* least 0.5, and is 0 below that.
C5_NonNegativeIntegers ==
    (Normalized /\ Positive(metrics.contentRatio) /\ Positive(options.baseSize)) =>
        /\ RIsInteger(out.width) /\ RLe(RInt(0), out.width)
        /\ RIsInteger(out.height) /\ RLe(RInt(0), out.height)
        /\ Positive(out.width) <=> RLe(R(1, 2), dims.width)
        /\ Positive(out.height) <=> RLe(R(1, 2), dims.height)

\* C5's case: a wide logo whose height rounds to 0 beside a positive width
C5_Witness ==
    /\ Normalized
    /\ Positive(metrics.contentRatio) /\ Positive(options.baseSize)
    /\ Positive(dims.height)
    /\ out.height = RInt(0)
    /\ Positive(out.width)

Compensated ==
    /\ npc \in {"compensated", "done"}
    /\ Positive(options.densityFactor)
    /\ Positive(metrics.pixelDensity)

\* C6: for pixelDensity > 0 and densityFactor > 0 the one scalar the
\* power-law width and height are multiplied by lies in [0.5, 2.0].
C6_ScaleWithinClamp ==
    Compensated =>
        LET scale == RDiv(dims.width, unscaled.width)
        IN  /\ RLe(R(1, 2), scale) /\ RLe(scale, RInt(2))
            /\ dims.width = RMul(unscaled.width, scale)
            /\ dims.height = RMul(unscaled.height, scale)

\* C6's case: pixelDensity = 100, whose scale 0.0035 is raised to 0.5
C6_Witness ==
    /\ Compensated
    /\ metrics.pixelDensity = RInt(100)
    /\ RLt(densityScale(metrics, options), R(1, 2))
    /\ dims.width = RMul(unscaled.width, R(1, 2))

\* The Metrics that differ from the call's in contentRatio only, with a
\* greater ratio
WiderMetrics ==
    { m \in MetricsInputs :
        /\ m = [metrics EXCEPT !.contentRatio = m.contentRatio]
        /\ RLt(metrics.contentRatio, m.contentRatio)
        /\ Representable(m, options) }

UnroundedWidth(m, o) == DensityCompensation(PowerLawSize(m, o), m, o).width
UnroundedHeight(m, o) == DensityCompensation(PowerLawSize(m, o), m, o).height

\* C7, as stated: with scaleFactor > 0, a greater contentRatio (all else
\* equal) gives a strictly greater returned width.
C7_WidthStrictlyIncreasing ==
    (Normalized /\ Positive(options.scaleFactor)) =>
        \A m \in WiderMetrics : RLt(out.width, normalize(m, options).width)

\* C7, amended: with scaleFactor > 0, a greater contentRatio gives a strictly
\* greater unrounded width and a returned (rounded) width that is greater or
\* equal.
C7_WidthNonDecreasing ==
    (Normalized /\ Positive(options.scaleFactor)) =>
        \A m \in WiderMetrics :
            /\ RLt(dims.width, UnroundedWidth(m, options))
            /\ RLe(out.width, normalize(m, options).width)

\* C7's case: ratios 1 and 25/16 at baseSize 1 both return width 1
C7_Witness ==
    /\ Normalized
    /\ Positive(options.scaleFactor)
    /\ \E m \in WiderMetrics :
         /\ RLt(dims.width, UnroundedWidth(m, options))
         /\ out.width = normalize(m, options).width

\* The call's Metrics at the reference density
AtReference == [metrics EXCEPT !.pixelDensity = options.referenceDensity]

Denser ==
    /\ Normalized
    /\ Positive(options.densityFactor)
    /\ RLt(options.referenceDensity, metrics.pixelDensity)

\* C8, as stated: with densityFactor > 0, a pixelDensity above
\* referenceDensity gives a strictly smaller returned width and height than
\* pixelDensity = referenceDensity.
C8_DenserStrictlySmaller ==
    Denser =>
        /\ RLt(out.width, normalize(AtReference, options).width)
        /\ RLt(out.height, normalize(AtReference, options).height)

\* C8, amended: with densityFactor > 0, a pixelDensity above referenceDensity
\* gives a returned width and height that are smaller than or equal to those
\* for pixelDensity = referenceDensity; the unrounded width and height are
\* strictly smaller when densityDampening > 0 as well.
C8_DenserNotLarger ==
    Denser =>
        /\ RLe(out.width, normalize(AtReference, options).width)
        /\ RLe(out.height, normalize(AtReference, options).height)
        /\ Positive(options.densityDampening) =>
             /\ RLt(dims.width, UnroundedWidth(AtReference, options))
             /\ RLt(dims.height, UnroundedHeight(AtReference, options))

\* C8's case: a denser logo whose unrounded width is smaller and whose
\* returned width is the same
C8_Witness ==
    /\ Denser
    /\ Positive(options.densityDampening)
    /\ RLt(dims.width, UnroundedWidth(AtReference, options))
    /\ out.width = normalize(AtReference, options).width

Sized == Normalized /\ Positive(metrics.contentRatio) /\ Positive(options.baseSize)

\* C9, as stated: visualCenterX > 0 yields offsetX < 0 and visualCenterX < 0
\* yields offsetX > 0, and the same for visualCenterY and offsetY.
C9_OffsetStrictlyOpposite ==
    Sized =>
        /\ Positive(metrics.visualCenterX) => RLt(out.offsetX, RInt(0))
        /\ RLt(metrics.visualCenterX, RInt(0)) => Positive(out.offsetX)
        /\ Positive(metrics.visualCenterY) => RLt(out.offsetY, RInt(0))
        /\ RLt(metrics.visualCenterY, RInt(0)) => Positive(out.offsetY)

\* The displacement an offset corrects: visual centre times unrounded size
ShiftX == RMul(metrics.visualCenterX, dims.width)
ShiftY == RMul(metrics.visualCenterY, dims.height)

\* C9, amended: visualCenterX > 0 yields offsetX <= 0 and visualCenterX < 0
\* yields offsetX >= 0 (the same for Y); the offset is not zero exactly when
\* the displacement visualCenter * unrounded size is above 0.05 (positive
\* centre) or at most -0.05 (negative centre).
C9_OffsetNeverSameSign ==
    Sized =>
        /\ Positive(metrics.visualCenterX) =>
             /\ RLe(out.offsetX, RInt(0))
             /\ RLt(out.offsetX, RInt(0)) <=> RLt(R(1, 20), ShiftX)
        /\ RLt(metrics.visualCenterX, RInt(0)) =>
             /\ RLe(RInt(0), out.offsetX)
             /\ Positive(out.offsetX) <=> RLe(ShiftX, R(-1, 20))
        /\ Positive(metrics.visualCenterY) =>
             /\ RLe(out.offsetY, RInt(0))
             /\ RLt(out.offsetY, RInt(0)) <=> RLt(R(1, 20), ShiftY)
        /\ RLt(metrics.visualCenterY, RInt(0)) =>
             /\ RLe(RInt(0), out.offsetY)
             /\ Positive(out.offsetY) <=> RLe(ShiftY, R(-1, 20))

\* C9's case: a positive centre too small to leave an offset, beside a
\* negative centre that leaves a positive one
C9_Witness ==
    /\ Sized
    /\ Positive(metrics.visualCenterX)
    /\ out.offsetX = RInt(0)
    /\ RLt(metrics.visualCenterY, RInt(0))
    /\ Positive(out.offsetY)

\* A square logo at the reference density, centred
SquareAtReference ==
    /\ metrics.contentRatio = RInt(1)
    /\ metrics.pixelDensity = options.referenceDensity
    /\ metrics.visualCenterX = RInt(0)
    /\ metrics.visualCenterY = RInt(0)

TrueAspect ==
    /\ npc \in {"compensated", "done"}
    /\ options.scaleFactor = RInt(1)
    /\ ~(Positive(options.densityFactor) /\ Positive(metrics.pixelDensity))

\* The metrics of the call with another content ratio
WithRatio(r) == [metrics EXCEPT !.contentRatio = r]

\* C13, as stated: with scaleFactor = 1 and no density compensation the
\* unrounded width is the same for every contentRatio > 0.
C13_FixedWidth ==
    TrueAspect =>
        \A r \in Ratios :
            UnroundedWidth(WithRatio(r), options) = dims.width

\* C13, amended: with scaleFactor = 1 and no density compensation the
\* unrounded height is baseSize for every contentRatio > 0 and the unrounded
\* width is contentRatio * baseSize, so only the width varies with the ratio.
C13_FixedHeight ==
    TrueAspect =>
        /\ dims.height = options.baseSize
        /\ dims.width = RMul(metrics.contentRatio, options.baseSize)
        /\ \A r \in Ratios :
              /\ UnroundedHeight(WithRatio(r), options) = dims.height
              /\ r # metrics.contentRatio =>
                    UnroundedWidth(WithRatio(r), options) # dims.width

\* C13's case: a wide logo sized with scaleFactor = 1 and densityFactor = 0,
\* returned four times as wide as high
C13_Witness ==
    /\ Normalized
    /\ TrueAspect
    /\ metrics.contentRatio = RInt(4)
    /\ options.baseSize = RInt(BASE_SIZE)
    /\ out.height = RInt(BASE_SIZE)
    /\ out.width = RInt(4 * BASE_SIZE)

============================================================================
